---- MODULE Spec2Model ----
(***************************************************************************)
(* The three-stage document pipeline of problem3: the (external) Fetch     *)
(* stage, the HTML Processor (processor/process.py) and the Corpus         *)
(* Analyzer (analyzer/analyze.py), coordinated through marker files on a   *)
(* shared volume.  Text is modelled as sequences of one-character strings, *)
(* so that the regular expressions of the source are computed, not assumed.*)
(***************************************************************************)
EXTENDS Integers, Sequences, FiniteSets, TLC

\* ------------------------------------------------------------------------
\* Bounds of the model
\* ------------------------------------------------------------------------

\* Longest raw-directory listing explored.
MaxFiles == 3

\* The ghost counter of sleeps begun after the marker appeared saturates here.
MaxSleeps == 2

\* Longest token list given to jaccard_similarity in JaccardSpec.
MaxTokens == 2

\* Most pieces of markup put together into one document in DocumentSpec.
MaxFragments == 3

\* ------------------------------------------------------------------------
\* Characters and small helpers
\* ------------------------------------------------------------------------

UpperLetters ==
    << "A","B","C","D","E","F","G","H","I","J","K","L","M",
       "N","O","P","Q","R","S","T","U","V","W","X","Y","Z" >>

LowerLetters ==
    << "a","b","c","d","e","f","g","h","i","j","k","l","m",
       "n","o","p","q","r","s","t","u","v","w","x","y","z" >>

DigitChars ==
    << "0","1","2","3","4","5","6","7","8","9" >>

Range(s) ==
    { s[i] : i \in DOMAIN s }

\* KELVIN SIGN (U+212A): a letter outside ASCII whose str.lower() is "k"
KelvinSign ==
    "U+212A"

\* the class [a-zA-Z]
AlphaChars ==
    Range(UpperLetters) \cup Range(LowerLetters)

\* the class \w
WordChars ==
    AlphaChars \cup Range(DigitChars) \cup {"_", KelvinSign}

\* the class \s
SpaceChars ==
    {" ", "\t", "\n", "\r", "\f"}

\* the class [.!?]
SentenceEnders ==
    {".", "!", "?"}

\* the complement of the class [^"' >]
AttrStops ==
    {"\"", "'", " ", ">"}

Min(S) ==
    CHOOSE x \in S : \A y \in S : x <= y

Max(S) ==
    CHOOSE x \in S : \A y \in S : x >= y

\* str.lower() on one character
LowerChar(c) ==
    IF \E k \in DOMAIN UpperLetters : UpperLetters[k] = c
    THEN LowerLetters[CHOOSE k \in DOMAIN UpperLetters : UpperLetters[k] = c]
    ELSE IF c = KelvinSign THEN "k"
    ELSE c

\* str.lower()
Lower(s) ==
    [i \in DOMAIN s |-> LowerChar(s[i])]

\* the literal p occurs in s at index i
StartsWithAt(s, i, p) ==
    /\ i + Len(p) - 1 <= Len(s)
    /\ \A k \in 1..Len(p) : s[i + k - 1] = p[k]

\* the same under re.IGNORECASE (p is lower case)
StartsWithAtCI(s, i, p) ==
    /\ i + Len(p) - 1 <= Len(s)
    /\ \A k \in 1..Len(p) : LowerChar(s[i + k - 1]) = p[k]

\* str.endswith
EndsWith(s, suffix) ==
    /\ Len(suffix) <= Len(s)
    /\ SubSeq(s, Len(s) - Len(suffix) + 1, Len(s)) = suffix

\* smallest index j >= i with s[j] = c, 0 when there is none
FirstIndex(s, i, c) ==
    LET S == { j \in i..Len(s) : s[j] = c }
    IN  IF S = {} THEN 0 ELSE Min(S)

\* smallest index j >= i where the literal p starts, 0 when there is none
FirstStart(s, i, p) ==
    LET S == { j \in i..Len(s) : StartsWithAt(s, j, p) }
    IN  IF S = {} THEN 0 ELSE Min(S)

\* last index of the maximal run of characters of C that starts at i
\* (i - 1 when s[i] is not in C)
RunEnd(s, i, C) ==
    LET S == { j \in i..Len(s) : s[j] \notin C }
    IN  IF S = {} THEN Len(s) ELSE Min(S) - 1

\* last index of the maximal run of characters outside C that starts at i
RunEndNot(s, i, C) ==
    LET S == { j \in i..Len(s) : s[j] \in C }
    IN  IF S = {} THEN Len(s) ELSE Min(S) - 1

\* str.strip()
Strip(s) ==
    LET K == { j \in DOMAIN s : s[j] \notin SpaceChars }
    IN  IF K = {} THEN << >> ELSE SubSeq(s, Min(K), Max(K))

\* ------------------------------------------------------------------------
\* processor/process.py: strip_html
\* ------------------------------------------------------------------------

ScriptOpen ==
    << "<","s","c","r","i","p","t" >>

ScriptClose ==
    << "<","/","s","c","r","i","p","t",">" >>

StyleOpen ==
    << "<","s","t","y","l","e" >>

StyleClose ==
    << "<","/","s","t","y","l","e",">" >>

HrefAttr ==
    << "h","r","e","f","=" >>

SrcAttr ==
    << "s","r","c","=" >>

\* Last index of a match of  open[^>]*>.*?close  (DOTALL, case-sensitive)
\* that starts at i; 0 when there is no match at i.
BlockEnd(s, i, open, close) ==
    IF ~StartsWithAt(s, i, open) THEN 0
    ELSE LET g == FirstIndex(s, i + Len(open), ">")
         IN  IF g = 0 THEN 0
             ELSE LET c == FirstStart(s, g + 1, close)
                  IN  IF c = 0 THEN 0 ELSE c + Len(close) - 1

RECURSIVE RemoveBlocksFrom(_, _, _, _)
RemoveBlocksFrom(s, i, open, close) ==
    LET M == { j \in i..Len(s) : BlockEnd(s, j, open, close) > 0 }
    IN  IF M = {} THEN SubSeq(s, i, Len(s))
        ELSE SubSeq(s, i, Min(M) - 1)
             \o RemoveBlocksFrom(s, BlockEnd(s, Min(M), open, close) + 1, open, close)

\* re.sub(r'<script[^>]*>.*?</script>', '', html, flags=re.DOTALL)
RemoveScripts(s) ==
    RemoveBlocksFrom(s, 1, ScriptOpen, ScriptClose)

\* re.sub(r'<style[^>]*>.*?</style>', '', html, flags=re.DOTALL)
RemoveStyles(s) ==
    RemoveBlocksFrom(s, 1, StyleOpen, StyleClose)

\* First index of the value of a match of  attr["']?([^"' >]+)  (IGNORECASE)
\* that starts at i; 0 when there is no match at i.
AttrValueStart(s, i, attr) ==
    IF ~StartsWithAtCI(s, i, attr) THEN 0
    ELSE LET q == i + Len(attr)
             v == IF q <= Len(s) /\ s[q] \in {"\"", "'"} THEN q + 1 ELSE q
         IN  IF v <= Len(s) /\ s[v] \notin AttrStops THEN v ELSE 0

RECURSIVE FindAttrFrom(_, _, _)
FindAttrFrom(s, i, attr) ==
    LET M == { j \in i..Len(s) : AttrValueStart(s, j, attr) > 0 }
    IN  IF M = {} THEN << >>
        ELSE LET v == AttrValueStart(s, Min(M), attr)
                 e == RunEndNot(s, v, AttrStops)
             IN  << SubSeq(s, v, e) >> \o FindAttrFrom(s, e + 1, attr)

\* re.findall(r'attr=["\']?([^"\' >]+)', html, flags=re.IGNORECASE)
FindAttr(s, attr) ==
    FindAttrFrom(s, 1, attr)

\* Last index of a match of  <[^>]+>  that starts at i; 0 when none.
TagEnd(s, i) ==
    IF s[i] # "<" THEN 0
    ELSE LET g == FirstIndex(s, i + 1, ">")
         IN  IF g >= i + 2 THEN g ELSE 0

\* a variant: the tags are deleted, not replaced by a space
TagReplacementEmpty ==
    << >>

\* the replacement of re.sub(r'<[^>]+>', ' ', html)
TagReplacement ==
    << " " >>

RECURSIVE StripTagsFrom(_, _)
StripTagsFrom(s, i) ==
    LET M == { j \in i..Len(s) : TagEnd(s, j) > 0 }
    IN  IF M = {} THEN SubSeq(s, i, Len(s))
        ELSE SubSeq(s, i, Min(M) - 1) \o TagReplacement
             \o StripTagsFrom(s, TagEnd(s, Min(M)) + 1)

\* re.sub(r'<[^>]+>', ' ', html)
StripTags(s) ==
    StripTagsFrom(s, 1)

RECURSIVE CollapseFrom(_, _)
CollapseFrom(s, i) ==
    LET M == { j \in i..Len(s) : s[j] \in SpaceChars }
    IN  IF M = {} THEN SubSeq(s, i, Len(s))
        ELSE SubSeq(s, i, Min(M) - 1) \o << " " >>
             \o CollapseFrom(s, RunEnd(s, Min(M), SpaceChars) + 1)

\* a variant: the text is trimmed, its whitespace runs are kept
CollapseWhitespaceTrimOnly(s) ==
    Strip(s)

\* re.sub(r'\s+', ' ', text).strip()
CollapseWhitespace(s) ==
    Strip(CollapseFrom(s, 1))

\* strip_html(html_content) -> (text, links, images)
strip_html(html_content) ==
    LET cleaned == RemoveStyles(RemoveScripts(html_content))
    IN  [ text   |-> CollapseWhitespace(StripTags(cleaned)),
          links  |-> FindAttr(cleaned, HrefAttr),
          images |-> FindAttr(cleaned, SrcAttr) ]

\* ------------------------------------------------------------------------
\* processor/process.py: analyze_text
\* ------------------------------------------------------------------------

\* Last index of a match of  \b[a-zA-Z]+\b  that starts at i; 0 when none.
AlphaTokenEnd(s, i) ==
    IF s[i] \in AlphaChars /\ (i = 1 \/ s[i - 1] \notin WordChars)
    THEN LET e == RunEnd(s, i, AlphaChars)
         IN  IF e = Len(s) \/ s[e + 1] \notin WordChars THEN e ELSE 0
    ELSE 0

RECURSIVE AlphaTokensFrom(_, _)
AlphaTokensFrom(s, i) ==
    LET M == { j \in i..Len(s) : AlphaTokenEnd(s, j) > 0 }
    IN  IF M = {} THEN << >>
        ELSE << SubSeq(s, Min(M), AlphaTokenEnd(s, Min(M))) >>
             \o AlphaTokensFrom(s, AlphaTokenEnd(s, Min(M)) + 1)

\* re.findall(r'\b[a-zA-Z]+\b', text)
AlphaTokens(s) ==
    AlphaTokensFrom(s, 1)

RECURSIVE SplitRunsFrom(_, _, _)
SplitRunsFrom(s, i, C) ==
    LET M == { j \in i..Len(s) : s[j] \in C }
    IN  IF M = {} THEN << SubSeq(s, i, Len(s)) >>
        ELSE << SubSeq(s, i, Min(M) - 1) >>
             \o SplitRunsFrom(s, RunEnd(s, Min(M), C) + 1, C)

\* [s.strip() for s in parts if s.strip()]
StripNonEmpty(parts) ==
    LET stripped == [k \in DOMAIN parts |-> Strip(parts[k])]
    IN  SelectSeq(stripped, LAMBDA p : p # << >>)

\* re.split(r'[.!?]+', text), trimmed, the empty segments dropped
Sentences(s) ==
    StripNonEmpty(SplitRunsFrom(s, 1, SentenceEnders))

\* Last index of a match of  \n\s*\n|\s{3,}  that starts at i; 0 when none.
ParagraphBreakEnd(s, i) ==
    LET e  == RunEnd(s, i, SpaceChars)
        nl == { j \in (i + 1)..e : s[j] = "\n" }
    IN  IF s[i] = "\n" /\ nl # {} THEN Max(nl)
        ELSE IF e - i + 1 >= 3 THEN e
        ELSE 0

RECURSIVE SplitParagraphsFrom(_, _)
SplitParagraphsFrom(s, i) ==
    LET M == { j \in i..Len(s) : ParagraphBreakEnd(s, j) > 0 }
    IN  IF M = {} THEN << SubSeq(s, i, Len(s)) >>
        ELSE << SubSeq(s, i, Min(M) - 1) >>
             \o SplitParagraphsFrom(s, ParagraphBreakEnd(s, Min(M)) + 1)

\* re.split(r'\n\s*\n|\s{3,}', text), trimmed, the empty segments dropped
Paragraphs(s) ==
    StripNonEmpty(SplitParagraphsFrom(s, 1))

RECURSIVE SumLen(_)
SumLen(ws) ==
    IF ws = << >> THEN 0 ELSE Len(Head(ws)) + SumLen(Tail(ws))

\* analyze_text(text): avg_word_length is the quotient num/den, kept exact
analyze_text(text) ==
    IF text = << >>
    THEN [ word_count |-> 0, sentence_count |-> 0, paragraph_count |-> 0,
           avg_word_length |-> [num |-> 0, den |-> 1] ]
    ELSE LET words == AlphaTokens(text)
         IN  [ word_count      |-> Len(words),
               sentence_count  |-> Len(Sentences(text)),
               paragraph_count |-> Len(Paragraphs(text)),
               avg_word_length |-> IF words # << >>
                                   THEN [num |-> SumLen(words), den |-> Len(words)]
                                   ELSE [num |-> 0, den |-> 1] ]

\* ------------------------------------------------------------------------
\* analyzer/analyze.py: pure functions
\* ------------------------------------------------------------------------

\* set(words)
ToSet(words) ==
    { words[i] : i \in DOMAIN words }

\* a variant: the intersection is divided by the first set, not the union
jaccard_similarity_first(doc1_words, doc2_words) ==
    LET set1 == { doc1_words[i] : i \in DOMAIN doc1_words }
        set2 == { doc2_words[i] : i \in DOMAIN doc2_words }
    IN  IF set1 \cup set2 # {} /\ set1 # {}
        THEN [num |-> Cardinality(set1 \cap set2), den |-> Cardinality(set1)]
        ELSE [num |-> 0, den |-> 1]

\* jaccard_similarity(doc1_words, doc2_words): the float len(intersection) /
\* len(union) kept as the exact quotient num/den; 0.0 is 0/1
jaccard_similarity(doc1_words, doc2_words) ==
    LET set1 == ToSet(doc1_words)
        set2 == ToSet(doc2_words)
        intersection == set1 \cap set2
        union == set1 \cup set2
    IN  IF union # {}
        THEN [num |-> Cardinality(intersection), den |-> Cardinality(union)]
        ELSE [num |-> 0, den |-> 1]

\* ' '.join(words)
RECURSIVE JoinWords(_)
JoinWords(words) ==
    IF words = << >> THEN << >>
    ELSE IF Len(words) = 1 THEN Head(words)
    ELSE Head(words) \o << " " >> \o JoinWords(Tail(words))

\* extract_ngrams(words, n)
extract_ngrams(words, n) ==
    IF Len(words) < n THEN << >>
    ELSE [i \in 1..(Len(words) - n + 1) |-> JoinWords(SubSeq(words, i, i + n - 1))]

\* round(num/den, d) for scale = 10^d, in units of 1/scale, when num/den is
\* not halfway between two such values; on an exact tie the even neighbour,
\* which is what Python returns when the float is exact (den a power of two).
\* Used for similarity (3 digits) and frequency (6 digits): a tie there needs
\* den to be a multiple of 16, resp. 128.
Round(num, den, scale) ==
    LET q == (num * scale) \div den
        r == (num * scale) % den
    IN  IF 2 * r < den THEN q
        ELSE IF 2 * r > den THEN q + 1
        ELSE IF q % 2 = 0 THEN q ELSE q + 1

\* The values round(x, d) can take for a float x computed as num/den through
\* inexact intermediate steps: the nearest value, or on an exact tie either
\* neighbour (the float's representation error decides).
RoundOutcomes(num, den, scale) ==
    LET q == (num * scale) \div den
        r == (num * scale) % den
    IN  IF 2 * r < den THEN {q}
        ELSE IF 2 * r > den THEN {q + 1}
        ELSE {q, q + 1}

\* Last index of a match of  \b\w+\b  that starts at i; 0 when none.
WordTokenEnd(s, i) ==
    IF s[i] \in WordChars /\ (i = 1 \/ s[i - 1] \notin WordChars)
    THEN RunEnd(s, i, WordChars)
    ELSE 0

RECURSIVE WordTokensFrom(_, _)
WordTokensFrom(s, i) ==
    LET M == { j \in i..Len(s) : WordTokenEnd(s, j) > 0 }
    IN  IF M = {} THEN << >>
        ELSE << SubSeq(s, Min(M), WordTokenEnd(s, Min(M))) >>
             \o WordTokensFrom(s, WordTokenEnd(s, Min(M)) + 1)

\* re.findall(r'\b\w+\b', text.lower())
WordTokens(text) ==
    WordTokensFrom(Lower(text), 1)

ZeroReadability ==
    [avg_sentence_length |-> 0, avg_word_length |-> 0, complexity_score |-> 0]

\* calculate_readability_metrics(text): the metrics in hundredths; a set,
\* because of RoundOutcomes.  complexity_score is
\* (W/S)*0.1 + (L/W)*0.5 = (W*W + 5*S*L) / (10*S*W).
calculate_readability_metrics(text) ==
    LET S == Len(Sentences(text))
        words == WordTokens(text)
        W == Len(words)
        L == SumLen(words)
    IN  IF S = 0 \/ W = 0 THEN {ZeroReadability}
        ELSE { [avg_sentence_length |-> a, avg_word_length |-> w,
                complexity_score |-> c] :
                 a \in RoundOutcomes(W, S, 100),
                 w \in RoundOutcomes(L, W, 100),
                 c \in RoundOutcomes(W * W + 5 * S * L, 10 * S * W, 100) }

\* ------------------------------------------------------------------------
\* analyzer/analyze.py: compute_global_statistics
\* documents is the dict in insertion order: a sequence of
\* [name |-> filename, data |-> the loaded JSON object]
\* ------------------------------------------------------------------------

\* collections.Counter.most_common keeps at most this many words
TopWords == 100

\* collections.Counter.most_common keeps at most this many n-grams
TopNgrams == 50

RECURSIVE Flatten(_)
Flatten(seqs) ==
    IF seqs = << >> THEN << >> ELSE Head(seqs) \o Flatten(Tail(seqs))

RECURSIVE Ascending(_)
Ascending(S) ==
    IF S = {} THEN << >> ELSE << Min(S) >> \o Ascending(S \ {Min(S)})

\* Counter(items): the distinct items in first-encounter order, each with
\* its number of occurrences
Counter(items) ==
    LET firsts == { i \in DOMAIN items : \A j \in 1..(i - 1) : items[j] # items[i] }
        order  == Ascending(firsts)
    IN  [k \in DOMAIN order |->
            [item  |-> items[order[k]],
             count |-> Cardinality({ j \in DOMAIN items : items[j] = items[order[k]] })]]

\* sorted by count, descending; equal counts stay in first-encounter order
RECURSIVE ByCountDescending(_)
ByCountDescending(entries) ==
    IF entries = << >> THEN << >>
    ELSE LET top == Max({ entries[k].count : k \in DOMAIN entries })
             at  == Min({ k \in DOMAIN entries : entries[k].count = top })
         IN  << entries[at] >>
             \o ByCountDescending(SubSeq(entries, 1, at - 1)
                                  \o SubSeq(entries, at + 1, Len(entries)))

\* Counter(items).most_common(n)
most_common(items, n) ==
    LET sorted == ByCountDescending(Counter(items))
    IN  SubSeq(sorted, 1, IF Len(sorted) < n THEN Len(sorted) ELSE n)

\* a variant: every ordered pair of distinct documents is recorded
SimilarityPairDistinct(i, j) ==
    i # j

\* the condition under which the pair (i, j) of the nested loops is recorded
SimilarityPairSelected(i, j) ==
    i < j

\* the nested loops  for i, doc1 in enumerate(doc_names):
\*                     for j, doc2 in enumerate(doc_names):
\* from iteration k (0-based, row-major) on; similarity in thousandths
RECURSIVE SimilarityLoop(_, _)
SimilarityLoop(documents, k) ==
    LET n == Len(documents)
        i == (k \div n) + 1
        j == (k % n) + 1
    IN  IF n = 0 \/ k >= n * n THEN << >>
        ELSE (IF SimilarityPairSelected(i, j)
              THEN LET sim == jaccard_similarity(documents[i].data.words,
                                                 documents[j].data.words)
                   IN  << [doc1 |-> documents[i].name,
                           doc2 |-> documents[j].name,
                           similarity |-> Round(sim.num, sim.den, 1000)] >>
              ELSE << >>)
             \o SimilarityLoop(documents, k + 1)

RECURSIVE SumField(_, _)
SumField(rs, field) ==
    IF rs = << >> THEN 0 ELSE Head(rs)[field] + SumField(Tail(rs), field)

\* The values avg_readability can take: the mean over the documents whose
\* text is non-empty of their metrics, in hundredths; zero without any.
avg_readability_outcomes(documents) ==
    LET texts == SelectSeq([k \in DOMAIN documents |-> documents[k].data.text],
                           LAMBDA x : x # << >>)
        n == Len(texts)
        each == UNION { calculate_readability_metrics(texts[k]) : k \in 1..n }
        scores == { f \in [1..n -> each] :
                      \A k \in 1..n : f[k] \in calculate_readability_metrics(texts[k]) }
    IN  IF n = 0 THEN {ZeroReadability}
        ELSE UNION { { [avg_sentence_length |-> a, avg_word_length |-> w,
                        complexity_score |-> c] :
                         a \in RoundOutcomes(SumField(f, "avg_sentence_length"), n, 1),
                         w \in RoundOutcomes(SumField(f, "avg_word_length"), n, 1),
                         c \in RoundOutcomes(SumField(f, "complexity_score"), n, 1) }
                     : f \in scores }

\* compute_global_statistics(documents), given the value of avg_readability;
\* frequency in millionths
compute_global_statistics(documents, avg_readability) ==
    LET word_lists == [k \in DOMAIN documents |-> documents[k].data.words]
        all_words == Flatten(word_lists)
        word_freq == Counter(all_words)
        top == most_common(all_words, TopWords)
        bigrams == Flatten([k \in DOMAIN word_lists |-> extract_ngrams(word_lists[k], 2)])
        trigrams == Flatten([k \in DOMAIN word_lists |-> extract_ngrams(word_lists[k], 3)])
    IN  [ documents_processed |-> Len(documents),
          total_words         |-> Len(all_words),
          unique_words        |-> Len(word_freq),
          top_100_words       |-> [k \in DOMAIN top |->
                                     [word |-> top[k].item, count |-> top[k].count,
                                      frequency |-> Round(top[k].count, Len(all_words),
                                                          1000000)]],
          document_similarity |-> SimilarityLoop(documents, 0),
          top_bigrams         |-> most_common(bigrams, TopNgrams),
          top_trigrams        |-> most_common(trigrams, TopNgrams),
          readability         |-> avg_readability ]

\* ------------------------------------------------------------------------
\* The shared volume and the raw documents
\* ------------------------------------------------------------------------

HelloHtml ==
    << "<","h","t","m","l",">","<","b","o","d","y",">","<","p",">","H","e","l","l","o",
       " ","w","o","r","l","d","."," ","H","e","l","l","o"," ","a","g","a","i","n","!",
       "<","/","p",">","<","a"," ","h","r","e","f","=","'","h","t","t","p",":","/","/",
       "x","'",">","x","<","/","a",">","<","/","b","o","d","y",">","<","/","h","t","m",
       "l",">" >>

ScriptHtml ==
    << "<","s","c","r","i","p","t",">","v","a","r"," ","a",";","<","/","s","c","r","i",
       "p","t",">","<","p",">","H","e","l","l","o"," ","w","o","r","l","d"," ","a","g",
       "a","i","n","<","/","p",">","<","i","m","g"," ","s","r","c","=","i",".","p","n",
       "g",">" >>

EmptyHtml ==
    << "<","b","r",">" >>

NameA ==
    << "a",".","h","t","m","l" >>

NameB ==
    << "b",".","h","t","m","l" >>

NameC ==
    << "c",".","h","t","m","l" >>

NameNotes ==
    << "n","o","t","e","s",".","t","x","t" >>

\* the file names the raw directory may hold
RawNames ==
    {NameA, NameB, NameC, NameNotes}

\* the bytes of each raw file
RawContent(name) ==
    CASE name = NameA -> HelloHtml
      [] name = NameB -> ScriptHtml
      [] name = NameC -> EmptyHtml
      [] OTHER -> << >>

HtmlSuffix ==
    << ".","h","t","m","l" >>

JsonSuffix ==
    << ".","j","s","o","n" >>

\* str(k) for 0 <= k
RECURSIVE Decimal(_)
Decimal(k) ==
    IF k < 10 THEN << DigitChars[k + 1] >>
    ELSE Decimal(k \div 10) \o << DigitChars[(k % 10) + 1] >>

\* f"page_{k}.json"
PageName(k) ==
    << "p","a","g","e","_" >> \o Decimal(k) \o JsonSuffix

\* a file that open(path, 'w') has created or truncated and json.dump has not
\* (or not completely) filled: no valid JSON
Truncated ==
    [kind |-> "truncated"]

\* a file holding the complete JSON text of data; json.load gives data back
JsonFile(data) ==
    [kind |-> "json", data |-> data]

Absent ==
    [kind |-> "absent"]

\* all orders in which os.listdir may return the names of S
Listings(S) ==
    { s \in [1..Cardinality(S) -> S] : \A i, j \in DOMAIN s : s[i] = s[j] => i = j }

\* the listings of at most MaxFiles of the raw names
RawListings ==
    UNION { Listings(S) : S \in { T \in SUBSET RawNames : Cardinality(T) <= MaxFiles } }

VARIABLES
    fetchMarker,        \* /shared/status/fetch_complete.json exists
    rawDir,             \* /shared/raw: [exists, files (in os.listdir order)]
    processedDir,       \* /shared/processed: [exists, files (name -> content)]
    processMarker,      \* /shared/status/process_complete.json: Absent, Truncated
                        \* or JsonFile(payload)
    reportFile,         \* /shared/analysis/final_report.json, likewise
    ppc,                \* Processor: position in main
    html_files,         \* Processor: the listing filtered by suffix
    pIdx,               \* Processor: index of the current entry of html_files
    processed_count,    \* Processor: the success counter
    output_data,        \* Processor: the record about to be written
    markerAtEntry,      \* ghost: the marker file as create_process_complete_status
                        \* found it
    apc,                \* Analyzer: position in main
    listing,            \* Analyzer: names of os.listdir still to visit
    documents,          \* Analyzer: the dict of loaded documents, insertion order
    analysis_results,   \* Analyzer: the report computed
    sleepsAfterMarker,  \* ghost: sleeps the Analyzer began while the marker existed
    jpc,                \* jaccard_similarity call: position
    jA,                 \* jaccard_similarity call: doc1_words
    jB,                 \* jaccard_similarity call: doc2_words
    jResult,            \* jaccard_similarity call: the value returned
    hpc,                \* one document through strip_html / analyze_text: position
    hContent,           \* one document: the markup read (html_content)
    hRecord             \* one document: the record output_data built from it

fsVars ==
    << fetchMarker, rawDir, processedDir, processMarker, reportFile >>

pVars ==
    << ppc, html_files, pIdx, processed_count, output_data, markerAtEntry >>

aVars ==
    << apc, listing, documents, analysis_results, sleepsAfterMarker >>

jVars ==
    << jpc, jA, jB, jResult >>

hVars ==
    << hpc, hContent, hRecord >>

vars ==
    << fsVars, pVars, aVars, jVars, hVars >>

NoData ==
    [kind |-> "none"]

\* ------------------------------------------------------------------------
\* Initial states
\* ------------------------------------------------------------------------

InitProcesses ==
    /\ ppc = "wait"
    /\ html_files = << >>
    /\ pIdx = 0
    /\ processed_count = 0
    /\ output_data = NoData
    /\ markerAtEntry = Absent
    /\ apc = "wait"
    /\ listing = << >>
    /\ documents = << >>
    /\ analysis_results = NoData
    /\ sleepsAfterMarker = 0

JaccardIdle ==
    /\ jpc = "idle"
    /\ jA = << >>
    /\ jB = << >>
    /\ jResult = NoData

DocumentIdle ==
    /\ hpc = "idle"
    /\ hContent = << >>
    /\ hRecord = NoData

\* the raw directory as the Fetch stage leaves it
InitRaw ==
    \/ rawDir = [exists |-> FALSE, files |-> << >>]
    \/ \E files \in RawListings : rawDir = [exists |-> TRUE, files |-> files]

\* A first run on an empty shared volume.
Init ==
    /\ fetchMarker = FALSE
    /\ InitRaw
    /\ processedDir = [exists |-> FALSE, files |-> << >>]
    /\ processMarker = Absent
    /\ reportFile = Absent
    /\ InitProcesses
    /\ JaccardIdle
    /\ DocumentIdle

\* What an earlier run of the pipeline on the same shared volume left: that
\* run processed nothing, or a.html, and signalled.
StaleDocument ==
    LET stripped == strip_html(RawContent(NameA))
    IN  [ source_file  |-> NameA,
          text         |-> stripped.text,
          words        |-> AlphaTokens(Lower(stripped.text)),
          statistics   |-> analyze_text(stripped.text),
          links        |-> stripped.links,
          images       |-> stripped.images,
          processed_at |-> "t_prev" ]

StaleMarker(count) ==
    JsonFile([status |-> "complete", processed_files |-> count,
              completed_at |-> "t_prev"])

\* A run on a shared volume that is empty or that an earlier run has used.
InitRerun ==
    /\ fetchMarker = FALSE
    /\ InitRaw
    /\ \/ /\ processedDir = [exists |-> FALSE, files |-> << >>]
          /\ processMarker = Absent
       \/ /\ processedDir = [exists |-> TRUE, files |-> << >>]
          /\ processMarker = StaleMarker(0)
       \/ /\ processedDir = [exists |-> TRUE,
                             files |-> (PageName(1) :> JsonFile(StaleDocument))]
          /\ processMarker = StaleMarker(1)
    /\ reportFile = Absent
    /\ InitProcesses
    /\ JaccardIdle
    /\ DocumentIdle

\* ------------------------------------------------------------------------
\* Fetch stage (external): signals that the raw documents are ready
\* ------------------------------------------------------------------------

FetchSignal ==
    /\ ~fetchMarker
    /\ fetchMarker' = TRUE
    /\ UNCHANGED << rawDir, processedDir, processMarker, reportFile >>
    /\ UNCHANGED << pVars, aVars, jVars, hVars >>

\* ------------------------------------------------------------------------
\* Processor (processor/process.py)
\* ------------------------------------------------------------------------

\* os.path.exists on a marker file
MarkerExists(marker) ==
    marker.kind # "absent"

\* wait_for_fetch_complete: the loop condition
PWaitCheck ==
    /\ ppc = "wait"
    /\ ppc' = IF fetchMarker THEN "makedirs" ELSE "sleep"
    /\ UNCHANGED << html_files, pIdx, processed_count, output_data, markerAtEntry >>
    /\ UNCHANGED << fsVars, aVars, jVars, hVars >>

\* wait_for_fetch_complete: time.sleep(1)
PSleep ==
    /\ ppc = "sleep"
    /\ ppc' = "wait"
    /\ UNCHANGED << html_files, pIdx, processed_count, output_data, markerAtEntry >>
    /\ UNCHANGED << fsVars, aVars, jVars, hVars >>

\* a variant: completion is signalled before the documents are processed
PMakedirsSignalFirst ==
    /\ ppc = "makedirs"
    /\ processedDir' = [processedDir EXCEPT !.exists = TRUE]
    /\ processMarker' = [kind |-> "json",
                         data |-> [status |-> "complete", processed_files |-> 0,
                                   completed_at |-> "t_run"]]
    /\ ppc' = "list"
    /\ UNCHANGED << html_files, pIdx, processed_count, output_data, markerAtEntry >>
    /\ UNCHANGED << fetchMarker, rawDir, reportFile >>
    /\ UNCHANGED << aVars, jVars, hVars >>

\* process_html_files: os.makedirs(processed_dir, exist_ok=True); an OSError
\* leaves process_html_files and main prints "Fatal error" and exits 1
PMakedirs ==
    /\ ppc = "makedirs"
    /\ \/ /\ processedDir' = [processedDir EXCEPT !.exists = TRUE]
          /\ ppc' = "list"
       \/ /\ processedDir' = processedDir
          /\ ppc' = "failed"
    /\ UNCHANGED << html_files, pIdx, processed_count, output_data, markerAtEntry >>
    /\ UNCHANGED << fetchMarker, rawDir, processMarker, reportFile >>
    /\ UNCHANGED << aVars, jVars, hVars >>

\* [f for f in os.listdir(raw_dir) if f.endswith('.html')]
HtmlFiles(files) ==
    SelectSeq(files, LAMBDA f : EndsWith(f, HtmlSuffix))

\* process_html_files: the raw directory is looked up and listed; return 0
\* when it is absent or holds no .html file
PList ==
    /\ ppc = "list"
    /\ html_files' = IF rawDir.exists THEN HtmlFiles(rawDir.files) ELSE << >>
    /\ processed_count' = 0
    /\ IF html_files' = << >>
       THEN ppc' = "signal" /\ pIdx' = pIdx
       ELSE ppc' = "read" /\ pIdx' = 1
    /\ UNCHANGED << output_data, markerAtEntry >>
    /\ UNCHANGED << fsVars, aVars, jVars, hVars >>

\* `continue`, or the end of the loop body: the next entry of html_files, or
\* return processed_count
AfterFile ==
    IF pIdx < Len(html_files)
    THEN ppc' = "read" /\ pIdx' = pIdx + 1
    ELSE ppc' = "signal" /\ pIdx' = pIdx

\* the dict output_data built for html_file with content html_content
OutputData(html_file, html_content) ==
    LET stripped == strip_html(html_content)
    IN  [ source_file  |-> html_file,
          text         |-> stripped.text,
          words        |-> AlphaTokens(Lower(stripped.text)),
          statistics   |-> analyze_text(stripped.text),
          links        |-> stripped.links,
          images       |-> stripped.images,
          processed_at |-> "t_run" ]

\* process_html_files: the file is read and output_data computed; an
\* exception while reading skips the file
PRead ==
    /\ ppc = "read"
    /\ \/ /\ output_data' = OutputData(html_files[pIdx], RawContent(html_files[pIdx]))
          /\ ppc' = "open"
          /\ pIdx' = pIdx
       \/ /\ output_data' = NoData
          /\ AfterFile
    /\ UNCHANGED << html_files, processed_count, markerAtEntry >>
    /\ UNCHANGED << fsVars, aVars, jVars, hVars >>

\* the name of the output file of the current document
output_filename ==
    PageName(processed_count + 1)

\* process_html_files: open(output_path, 'w') creates or truncates the file;
\* an exception skips the document
POpen ==
    /\ ppc = "open"
    /\ \/ /\ processedDir' = [processedDir EXCEPT
                                !.files = (output_filename :> Truncated) @@ @]
          /\ ppc' = "dump"
          /\ pIdx' = pIdx
          /\ output_data' = output_data
       \/ /\ processedDir' = processedDir
          /\ output_data' = NoData
          /\ AfterFile
    /\ UNCHANGED << html_files, processed_count, markerAtEntry >>
    /\ UNCHANGED << fetchMarker, rawDir, processMarker, reportFile >>
    /\ UNCHANGED << aVars, jVars, hVars >>

\* the counter after a document has been written
CountSuccess(count) ==
    count + 1

\* a variant: the counter is incremented before json.dump, so a failed write
\* is counted too
PDumpCountAlways ==
    /\ ppc = "dump"
    /\ \/ processedDir' = [processedDir EXCEPT
                             !.files = (output_filename :> JsonFile(output_data)) @@ @]
       \/ processedDir' = processedDir
    /\ processed_count' = CountSuccess(processed_count)
    /\ output_data' = NoData
    /\ AfterFile
    /\ UNCHANGED << html_files, markerAtEntry >>
    /\ UNCHANGED << fetchMarker, rawDir, processMarker, reportFile >>
    /\ UNCHANGED << aVars, jVars, hVars >>

\* process_html_files: json.dump and the closing of the file, then
\* processed_count += 1; an exception (an I/O error) leaves the file as it is
\* and skips the document
PDump ==
    /\ ppc = "dump"
    /\ \/ /\ processedDir' = [processedDir EXCEPT
                                !.files = (output_filename :> JsonFile(output_data)) @@ @]
          /\ processed_count' = CountSuccess(processed_count)
       \/ /\ processedDir' = processedDir
          /\ processed_count' = processed_count
    /\ output_data' = NoData
    /\ AfterFile
    /\ UNCHANGED << html_files, markerAtEntry >>
    /\ UNCHANGED << fetchMarker, rawDir, processMarker, reportFile >>
    /\ UNCHANGED << aVars, jVars, hVars >>

\* create_process_complete_status: os.makedirs(status_dir, exist_ok=True);
\* an OSError is fatal
PSignalMakedirs ==
    /\ ppc = "signal"
    /\ \/ ppc' = "marker_open"
       \/ ppc' = "failed"
    /\ markerAtEntry' = processMarker
    /\ UNCHANGED << html_files, pIdx, processed_count, output_data >>
    /\ UNCHANGED << fsVars, aVars, jVars, hVars >>

\* a variant: the marker is created only if it does not exist yet
PMarkerOpenCreateOnce ==
    /\ ppc = "marker_open"
    /\ IF processMarker.kind # "absent"
       THEN processMarker' = processMarker /\ ppc' = "done"
       ELSE processMarker' = Truncated /\ ppc' = "marker_dump"
    /\ UNCHANGED << html_files, pIdx, processed_count, output_data, markerAtEntry >>
    /\ UNCHANGED << fetchMarker, rawDir, processedDir, reportFile >>
    /\ UNCHANGED << aVars, jVars, hVars >>

\* create_process_complete_status: open(status_path, 'w'); an OSError is fatal
PMarkerOpen ==
    /\ ppc = "marker_open"
    /\ \/ /\ processMarker' = Truncated
          /\ ppc' = "marker_dump"
       \/ /\ processMarker' = processMarker
          /\ ppc' = "failed"
    /\ UNCHANGED << html_files, pIdx, processed_count, output_data, markerAtEntry >>
    /\ UNCHANGED << fetchMarker, rawDir, processedDir, reportFile >>
    /\ UNCHANGED << aVars, jVars, hVars >>

\* status_data
StatusData(count) ==
    [status |-> "complete", processed_files |-> count, completed_at |-> "t_run"]

\* create_process_complete_status: json.dump(status_data, f); an OSError is
\* fatal and leaves the marker file as opened
PMarkerDump ==
    /\ ppc = "marker_dump"
    /\ \/ /\ processMarker' = JsonFile(StatusData(processed_count))
          /\ ppc' = "done"
       \/ /\ processMarker' = processMarker
          /\ ppc' = "failed"
    /\ UNCHANGED << html_files, pIdx, processed_count, output_data, markerAtEntry >>
    /\ UNCHANGED << fetchMarker, rawDir, processedDir, reportFile >>
    /\ UNCHANGED << aVars, jVars, hVars >>

ProcessorNext ==
    \/ PWaitCheck
    \/ PSleep
    \/ PMakedirs
    \/ PList
    \/ PRead
    \/ POpen
    \/ PDump
    \/ PSignalMakedirs
    \/ PMarkerOpen
    \/ PMarkerDump

\* ------------------------------------------------------------------------
\* Analyzer (analyzer/analyze.py)
\* ------------------------------------------------------------------------

\* a variant: the Analyzer does not wait for the marker
AWaitCheckNoWait ==
    /\ apc = "wait"
    /\ apc' = "listdir"
    /\ UNCHANGED << listing, documents, analysis_results, sleepsAfterMarker >>
    /\ UNCHANGED << fsVars, pVars, jVars, hVars >>

\* wait_for_processing_complete: the loop condition
AWaitCheck ==
    /\ apc = "wait"
    /\ apc' = IF MarkerExists(processMarker) THEN "listdir" ELSE "sleep"
    /\ UNCHANGED << listing, documents, analysis_results, sleepsAfterMarker >>
    /\ UNCHANGED << fsVars, pVars, jVars, hVars >>

\* wait_for_processing_complete: time.sleep(5) begins
ASleepStart ==
    /\ apc = "sleep"
    /\ apc' = "sleeping"
    /\ sleepsAfterMarker' =
          IF MarkerExists(processMarker) /\ sleepsAfterMarker < MaxSleeps
          THEN sleepsAfterMarker + 1
          ELSE sleepsAfterMarker
    /\ UNCHANGED << listing, documents, analysis_results >>
    /\ UNCHANGED << fsVars, pVars, jVars, hVars >>

\* a variant: after a sleep the Analyzer sleeps once more before it looks
\* for the marker again
ASleepEndSleepAgain ==
    /\ \/ apc = "sleeping" /\ apc' = "sleep_more"
       \/ apc = "sleep_more" /\ apc' = "sleeping_more"
       \/ apc = "sleeping_more" /\ apc' = "wait"
    /\ sleepsAfterMarker' =
          IF apc = "sleep_more" /\ processMarker.kind # "absent"
             /\ sleepsAfterMarker < MaxSleeps
          THEN sleepsAfterMarker + 1
          ELSE sleepsAfterMarker
    /\ UNCHANGED << listing, documents, analysis_results >>
    /\ UNCHANGED << fsVars, pVars, jVars, hVars >>

\* a variant: the wait gives up after one poll interval
ASleepEndTimeout ==
    /\ apc = "sleeping"
    /\ apc' = "listdir"
    /\ UNCHANGED << listing, documents, analysis_results, sleepsAfterMarker >>
    /\ UNCHANGED << fsVars, pVars, jVars, hVars >>

\* wait_for_processing_complete: time.sleep(5) returns, "Still waiting" is
\* printed and the loop condition is next
ASleepEnd ==
    /\ apc = "sleeping"
    /\ apc' = "wait"
    /\ UNCHANGED << listing, documents, analysis_results, sleepsAfterMarker >>
    /\ UNCHANGED << fsVars, pVars, jVars, hVars >>

\* load_processed_documents: FileNotFoundError when the directory is absent
\* (main re-raises it), else os.listdir in some order
AListdir ==
    /\ apc = "listdir"
    /\ \/ /\ ~processedDir.exists
          /\ apc' = "failed"
          /\ listing' = listing
       \/ /\ processedDir.exists
          /\ \E order \in Listings(DOMAIN processedDir.files) :
                /\ listing' = order
                /\ apc' = IF order = << >> THEN "compute" ELSE "load"
    /\ UNCHANGED << documents, analysis_results, sleepsAfterMarker >>
    /\ UNCHANGED << fsVars, pVars, jVars, hVars >>

\* what open + json.load give for a file: its object, or an exception
\* (NoData) when the file is gone or holds no valid JSON
LoadJson(files, filename) ==
    IF filename \in DOMAIN files /\ files[filename].kind = "json"
    THEN files[filename].data
    ELSE NoData

\* load_processed_documents: one iteration of the loop over os.listdir
ALoadFile ==
    /\ apc = "load"
    /\ LET filename == Head(listing)
           doc_data == LoadJson(processedDir.files, filename)
       IN  documents' =
              IF EndsWith(filename, JsonSuffix) /\ doc_data # NoData
              THEN Append(documents, [name |-> filename, data |-> doc_data])
              ELSE documents
    /\ listing' = Tail(listing)
    /\ apc' = IF listing' = << >> THEN "compute" ELSE "load"
    /\ UNCHANGED << analysis_results, sleepsAfterMarker >>
    /\ UNCHANGED << fsVars, pVars, jVars, hVars >>

\* main: analysis_results = compute_global_statistics(documents)
ACompute ==
    /\ apc = "compute"
    /\ \E avg_readability \in avg_readability_outcomes(documents) :
          analysis_results' = compute_global_statistics(documents, avg_readability)
    /\ apc' = "save"
    /\ UNCHANGED << listing, documents, sleepsAfterMarker >>
    /\ UNCHANGED << fsVars, pVars, jVars, hVars >>

\* save_final_report: os.makedirs, open(report_path, 'w'), json.dump; an
\* OSError is re-raised by main, the file untouched or truncated
ASave ==
    /\ apc = "save"
    /\ \/ /\ reportFile' = JsonFile(analysis_results)
          /\ apc' = "summary"
       \/ /\ reportFile' = reportFile
          /\ apc' = "failed"
       \/ /\ reportFile' = Truncated
          /\ apc' = "failed"
    /\ UNCHANGED << listing, documents, analysis_results, sleepsAfterMarker >>
    /\ UNCHANGED << fetchMarker, rawDir, processedDir, processMarker >>
    /\ UNCHANGED << pVars, jVars, hVars >>

\* main: the summary prints analysis_results['top_100_words'][0], an
\* IndexError on an empty list, which main re-raises
ASummary ==
    /\ apc = "summary"
    /\ apc' = IF analysis_results.top_100_words = << >> THEN "failed" ELSE "done"
    /\ UNCHANGED << listing, documents, analysis_results, sleepsAfterMarker >>
    /\ UNCHANGED << fsVars, pVars, jVars, hVars >>

AnalyzerNext ==
    \/ AWaitCheck
    \/ ASleepStart
    \/ ASleepEnd
    \/ AListdir
    \/ ALoadFile
    \/ ACompute
    \/ ASave
    \/ ASummary

\* ------------------------------------------------------------------------
\* The pipeline
\* ------------------------------------------------------------------------

Next ==
    \/ FetchSignal
    \/ ProcessorNext
    \/ AnalyzerNext

Spec ==
    Init /\ [][Next]_vars

RerunSpec ==
    InitRerun /\ [][Next]_vars

\* The Analyzer is a running process: in wait_for_processing_complete the
\* loop condition is evaluated, the sleep begins and the sleep returns, each
\* eventually.  Nothing is assumed of the other stages.
Fairness ==
    /\ WF_vars(AWaitCheck)
    /\ WF_vars(ASleepStart)
    /\ WF_vars(ASleepEnd)

FairSpec ==
    Init /\ [][Next]_vars /\ Fairness

\* ------------------------------------------------------------------------
\* jaccard_similarity on its own: a call with arbitrary token lists
\* ------------------------------------------------------------------------

Tokens ==
    {"a", "b", "c"}

TokenLists ==
    UNION { [1..n -> Tokens] : n \in 0..MaxTokens }

JaccardInit ==
    /\ fetchMarker = FALSE
    /\ rawDir = [exists |-> FALSE, files |-> << >>]
    /\ processedDir = [exists |-> FALSE, files |-> << >>]
    /\ processMarker = Absent
    /\ reportFile = Absent
    /\ InitProcesses
    /\ jpc = "call"
    /\ jA \in TokenLists
    /\ jB \in TokenLists
    /\ jResult = NoData
    /\ DocumentIdle

JaccardCall ==
    /\ jpc = "call"
    /\ jResult' = jaccard_similarity(jA, jB)
    /\ jpc' = "returned"
    /\ UNCHANGED << jA, jB >>
    /\ UNCHANGED << fsVars, pVars, aVars, hVars >>

JaccardNext ==
    JaccardCall

JaccardSpec ==
    JaccardInit /\ [][JaccardNext]_vars

\* ------------------------------------------------------------------------
\* One document on its own: the body of the loop of process_html_files
\* applied to arbitrary markup
\* ------------------------------------------------------------------------

\* the pieces the markup is put together from
Fragments ==
    { << "<","s","c","r","i","p","t"," ","s","r","c","=","v",">" >>,
      << "<","/","s","c","r","i","p","t",">" >>,
      << "<","S","C","R","I","P","T",">" >>,
      << "<","/","S","C","R","I","P","T",">" >>,
      << "<","s","t","y","l","e"," ","a",">" >>,
      << "<","/","s","t","y","l","e",">" >>,
      << "<","/","p",">","\n","\n","<","p",">" >>,
      << "<","a"," ","H","R","E","F","=","'","u","'",">" >>,
      << " ","h","r","e","f","=","u" >>,
      << "\n" >>,
      << "A","b" >>,
      << "x" >>,
      << KelvinSign >> }

\* the markup of at most MaxFragments pieces
Markups ==
    { Flatten(fs) : fs \in UNION { [1..n -> Fragments] : n \in 0..MaxFragments } }

DocumentInit ==
    /\ fetchMarker = FALSE
    /\ rawDir = [exists |-> FALSE, files |-> << >>]
    /\ processedDir = [exists |-> FALSE, files |-> << >>]
    /\ processMarker = Absent
    /\ reportFile = Absent
    /\ InitProcesses
    /\ JaccardIdle
    /\ hpc = "read"
    /\ hContent \in Markups
    /\ hRecord = NoData

\* strip_html, analyze_text and the words list give output_data
DocumentCall ==
    /\ hpc = "read"
    /\ hRecord' = OutputData(NameA, hContent)
    /\ hpc' = "built"
    /\ UNCHANGED hContent
    /\ UNCHANGED << fsVars, pVars, aVars, jVars >>

DocumentNext ==
    DocumentCall

DocumentSpec ==
    DocumentInit /\ [][DocumentNext]_vars

\* ------------------------------------------------------------------------
\* Properties
\* ------------------------------------------------------------------------

HelloText ==
    << "H","e","l","l","o"," ","w","o","r","l","d","."," ","H","e","l","l","o"," ",
       "a","g","a","i","n","!"," ","x" >>

HelloLink ==
    << "h","t","t","p",":","/","/","x" >>

AnalyzerWaiting ==
    apc \in {"wait", "sleep", "sleeping"}

ProcessorWaiting ==
    ppc \in {"wait", "sleep"}

\* the step is one in which the Analyzer lists or reads the processed directory
AnalyzerReadsProcessed ==
    /\ apc \in {"listdir", "load"}
    /\ << apc, listing >>' # << apc, listing >>

\* the step is one in which the Processor looks up, lists or reads the raw
\* directory, or opens or writes a processed document
ProcessorReadsOrWrites ==
    /\ ppc \in {"list", "read", "open", "dump"}
    /\ << ppc, pIdx >>' # << ppc, pIdx >>

\* C1: no step of the Analyzer reads the processed directory while
\* process_complete.json does not exist, and no step of the Processor reads
\* the raw directory or writes a processed document while
\* fetch_complete.json does not exist.
C1_NoReadBeforeMarker ==
    [][ /\ AnalyzerReadsProcessed => MarkerExists(processMarker)
        /\ ProcessorReadsOrWrites => fetchMarker ]_vars

\* Both stages have read: the Processor is done and the Analyzer has loaded
\* a document.
C1_Witness ==
    /\ ppc = "done"
    /\ documents # << >>

\* the documents counted as successes are on disk, complete
SuccessesWritten ==
    \A k \in 1..processed_count :
        /\ PageName(k) \in DOMAIN processedDir.files
        /\ processedDir.files[PageName(k)].kind = "json"

\* C2: whenever process_complete.json exists the Processor has left its
\* loop and is in, or past, the writing of the marker, every document it
\* counted is completely written, and from then on no step changes the
\* processed directory.
C2_MarkerIsFinalAct ==
    /\ [](MarkerExists(processMarker)
            => /\ ppc \in {"marker_dump", "done", "failed"}
               /\ SuccessesWritten)
    /\ [][MarkerExists(processMarker) => processedDir' = processedDir]_vars

\* The marker is written after two documents were.
C2_Witness ==
    /\ ppc = "done"
    /\ processMarker.kind = "json"
    /\ processed_count >= 2

C4_ObservedWithinOnePoll ==
    /\ [](sleepsAfterMarker <= 1)
    /\ MarkerExists(processMarker) ~> ~AnalyzerWaiting

\* The marker appeared between the Analyzer's check and its sleep: one more
\* sleep, then the Analyzer lists the documents.
C4_Witness ==
    /\ sleepsAfterMarker = 1
    /\ apc = "listdir"

\* C5: while process_complete.json does not exist the Analyzer is in its
\* wait loop, has loaded nothing, computed nothing and written no report;
\* while fetch_complete.json does not exist the Processor is in its wait
\* loop and has written no document and no marker.  (No step removes a
\* marker, so a stage whose marker never appears is in its wait loop
\* forever.)
C5_WaitsWithoutMarker ==
    /\ ~MarkerExists(processMarker)
          => /\ AnalyzerWaiting
             /\ documents = << >>
             /\ analysis_results = NoData
             /\ reportFile = Absent
    /\ ~fetchMarker
          => /\ ProcessorWaiting
             /\ processedDir = [exists |-> FALSE, files |-> << >>]
             /\ processMarker = Absent

\* The Processor has aborted before it wrote the marker, and the Analyzer
\* is asleep in its wait loop.
C5_Witness ==
    /\ ppc = "failed"
    /\ ~MarkerExists(processMarker)
    /\ apc = "sleeping"

\* C6 as claimed: when process_html_files has returned s = processed_count,
\* the files of the processed directory are exactly page_1.json ..
\* page_s.json, each complete, and the marker, once written, carries s.
C6_ContiguousOutputs ==
    ppc \in {"signal", "marker_open", "marker_dump", "done"}
       => /\ DOMAIN processedDir.files = { PageName(k) : k \in 1..processed_count }
          /\ SuccessesWritten
          /\ ppc = "done" => processMarker.data.processed_files = processed_count

\* C7 as claimed: when the Analyzer has loaded no document and has written
\* its report, the report is the all-zero report and the run does not end in
\* an error.
C7_EmptyCorpusCompletes ==
    (/\ apc \in {"summary", "done", "failed"}
     /\ documents = << >>
     /\ reportFile = JsonFile(analysis_results))
       => /\ analysis_results.documents_processed = 0
          /\ analysis_results.total_words = 0
          /\ analysis_results.unique_words = 0
          /\ analysis_results.top_100_words = << >>
          /\ analysis_results.document_similarity = << >>
          /\ analysis_results.top_bigrams = << >>
          /\ analysis_results.top_trigrams = << >>
          /\ analysis_results.readability = ZeroReadability
          /\ apc # "failed"

\* the position of the document called name in the enumeration order
DocIndex(name) ==
    CHOOSE i \in DOMAIN documents : documents[i].name = name

\* C8: the similarity list of a report over n documents has n*(n-1)/2
\* entries; each pair i < j of documents is the (doc1, doc2) of exactly one
\* entry; every entry names two loaded documents, doc1 enumerated before
\* doc2 (so none is reversed or has doc1 = doc2).
C8_SimilarityPairs ==
    analysis_results # NoData =>
       LET sim == analysis_results.document_similarity
           n == Len(documents)
       IN  /\ 2 * Len(sim) = n * (n - 1)
           /\ \A i, j \in 1..n :
                 i < j => Cardinality({ k \in DOMAIN sim :
                                          /\ sim[k].doc1 = documents[i].name
                                          /\ sim[k].doc2 = documents[j].name }) = 1
           /\ \A k \in DOMAIN sim :
                 /\ \E i \in 1..n : documents[i].name = sim[k].doc1
                 /\ \E j \in 1..n : documents[j].name = sim[k].doc2
                 /\ DocIndex(sim[k].doc1) < DocIndex(sim[k].doc2)

\* A report over three documents.
C8_Witness ==
    /\ analysis_results # NoData
    /\ Len(documents) = 3
    /\ Len(analysis_results.document_similarity) = 3

\* equality of the floats num/den
SameQuotient(x, y) ==
    x.num * y.den = y.num * x.den

\* C9: jaccard_similarity(A, B) equals jaccard_similarity(B, A); it is 1.0
\* when the token sets are equal and non-empty, 0.0 when they are disjoint,
\* and it lies in [0, 1].
C9_JaccardLaws ==
    jpc = "returned" =>
       /\ SameQuotient(jResult, jaccard_similarity(jB, jA))
       /\ (ToSet(jA) = ToSet(jB) /\ ToSet(jA) # {}) => jResult.num = jResult.den
       /\ ToSet(jA) \cap ToSet(jB) = {} => jResult.num = 0
       /\ 0 <= jResult.num
       /\ jResult.num <= jResult.den
       /\ 0 < jResult.den

\* Two token lists that overlap in one of three tokens.
C9_Witness ==
    /\ jpc = "returned"
    /\ Len(jA) = 2
    /\ jResult = [num |-> 1, den |-> 3]

\* the records written for a raw file whose content is HelloHtml
HelloRecords ==
    { processedDir.files[f].data :
        f \in { g \in DOMAIN processedDir.files :
                  /\ processedDir.files[g].kind = "json"
                  /\ RawContent(processedDir.files[g].data.source_file) = HelloHtml } }

\* C10 as claimed: sentence_count == 2.
C10_HelloRecordTwoSentences ==
    \A r \in HelloRecords :
        /\ r.text = HelloText
        /\ r.links = << HelloLink >>
        /\ r.statistics.word_count = 5
        /\ r.statistics.sentence_count = 2

\* C10 as the code has it: the record has the text "Hello world. Hello
\* again! x", the one link http://x, word_count 5 and sentence_count 3 (the
\* segments "Hello world", "Hello again" and "x").
C10_HelloRecord ==
    \A r \in HelloRecords :
        /\ r.text = HelloText
        /\ r.links = << HelloLink >>
        /\ r.statistics.word_count = 5
        /\ r.statistics.sentence_count = 3
        /\ Sentences(r.text) = << <<"H","e","l","l","o"," ","w","o","r","l","d">>,
                                  <<"H","e","l","l","o"," ","a","g","a","i","n">>,
                                  <<"x">> >>

\* The Processor has written the record of a.html.
C10_Witness ==
    /\ HelloRecords # {}
    /\ ppc = "done"


\* The whole of s is one block  open[^>]*>.*?close  with the tag names
\* matched in any case.
WholeBlockAnyCase(s, open, close) ==
    /\ StartsWithAtCI(s, 1, open)
    /\ LET g == FirstIndex(s, 1 + Len(open), ">")
           C == { j \in (g + 1)..Len(s) : StartsWithAtCI(s, j, close) }
       IN  /\ g > 0
           /\ C # {}
           /\ Min(C) + Len(close) - 1 = Len(s)

\* the document is exactly one script or style block
OneBlockDocument ==
    \/ WholeBlockAnyCase(hContent, ScriptOpen, ScriptClose)
    \/ WholeBlockAnyCase(hContent, StyleOpen, StyleClose)

\* C11: strip_html removes every script and style block, the tag names
\* matched case-insensitively, whatever the attributes of the opening tag and
\* the newlines inside: of a document that is one such block, nothing is left
\* in the returned text.
C11_BlocksRemoved ==
    (hpc = "built" /\ OneBlockDocument) => hRecord.text = << >>

\* C12: links and images hold every href= and src= value of the original
\* markup, those inside or on script and style tags included, in order of
\* occurrence and with duplicates.
C12_ValuesOfOriginalMarkup ==
    hpc = "built" =>
        /\ hRecord.links = FindAttr(hContent, HrefAttr)
        /\ hRecord.images = FindAttr(hContent, SrcAttr)

\* C13: statistics.word_count of a record equals the length of its words
\* list, for every text, non-ASCII characters included.
C13_WordCountIsLenWords ==
    hpc = "built" => hRecord.statistics.word_count = Len(hRecord.words)

\* The mean the claim describes: every loaded document counts in the
\* divisor, a document with empty text adding zeros to the sums.
MeanOverLoaded(docs) ==
    LET texts == SelectSeq([k \in DOMAIN docs |-> docs[k].data.text],
                           LAMBDA x : x # << >>)
        n == Len(texts)
        each == UNION { calculate_readability_metrics(texts[k]) : k \in 1..n }
        scores == { f \in [1..n -> each] :
                      \A k \in 1..n : f[k] \in calculate_readability_metrics(texts[k]) }
    IN  IF n = 0 THEN {ZeroReadability}
        ELSE UNION { { [avg_sentence_length |-> a, avg_word_length |-> w,
                        complexity_score |-> c] :
                         a \in RoundOutcomes(SumField(f, "avg_sentence_length"), Len(docs), 1),
                         w \in RoundOutcomes(SumField(f, "avg_word_length"), Len(docs), 1),
                         c \in RoundOutcomes(SumField(f, "complexity_score"), Len(docs), 1) }
                     : f \in scores }

\* C14: the corpus readability is the mean of the metrics of all loaded
\* documents, the divisor being their number and a document with empty text
\* contributing zeros; all-zero only when no document has text.
C14_MeanOverLoadedDocuments ==
    analysis_results # NoData =>
        analysis_results.readability \in MeanOverLoaded(documents)

\* the Analyzer has loaded the documents
AnalyzerLoaded ==
    apc = "compute" \/ analysis_results # NoData

\* the names of the documents the Analyzer loaded
LoadedNames ==
    { documents[k].name : k \in DOMAIN documents }

\* C15: in a run that starts with an empty processed directory, the documents
\* the Analyzer loads are exactly the page_k.json the Processor counted as
\* successes, and documents_processed of the report equals processed_files
\* of the marker, whichever documents failed in the Processor.
C15_LoadedAreCounted ==
    /\ AnalyzerLoaded =>
           /\ LoadedNames = { PageName(k) : k \in 1..processed_count }
           /\ Len(documents) = processed_count
    /\ (analysis_results # NoData /\ processMarker.kind = "json") =>
           analysis_results.documents_processed = processMarker.data.processed_files

\* The Analyzer has computed the report of a run in which the Processor
\* wrote one document and failed on another, whose truncated file is left.
C15_Witness ==
    /\ analysis_results # NoData
    /\ processMarker.kind = "json"
    /\ processed_count >= 1
    /\ processed_count < Len(html_files)
    /\ \E f \in DOMAIN processedDir.files : processedDir.files[f] = Truncated

\* C16: paragraph_count of a record is 0 when the cleaned text is empty and
\* 1 otherwise, whatever blank lines and whitespace runs the markup has.
C16_OneParagraph ==
    hpc = "built" =>
        hRecord.statistics.paragraph_count = IF hRecord.text = << >> THEN 0 ELSE 1

\* A record was built from markup with words on both sides of a blank line.
C16_Witness ==
    /\ hpc = "built"
    /\ \E i \in 2..(Len(hContent) - 2) :
          /\ hContent[i] = "\n"
          /\ hContent[i + 1] = "\n"
    /\ Len(hRecord.words) >= 2
    /\ hRecord.statistics.paragraph_count = 1

====
